---- MODULE Spec2Model ----
(***************************************************************************)
(* A model of the per-die roll lifecycle of PhysicsDice                    *)
(* (src/src/dice/PhysicsDice.tsx), of its collision audio throttle, and of *)
(* the DiceExtras controls (src/src/materials/DiceMaterial.tsx, l. 54-148).*)
(*                                                                         *)
(* Units.  Lengths and speeds are integers in hundredths of a scene unit   *)
(* (0.05 is 5, 1.5 is 150), times are milliseconds, quaternions are in     *)
(* halves (the unit quaternion (x,y,z,w) is <<2x,2y,2z,2w>>), Euler angles *)
(* are in quarter turns, and a sound volume is in 1/500 (volume 1 is 500). *)
(***************************************************************************)
EXTENDS Integers, Sequences, FiniteSets

VARIABLES
    phase,            \* per die: "unmounted", "mounted" or "removed"
    origin,           \* per die: how it was spawned: "none", "throw", "transform"
    props,            \* per die: the props of the last render of PhysicsDice
    spawn,            \* per die: the four useState values fixed at first mount
    body,             \* per die: rigidBodyRef.current, the physics body
    frameCb,          \* per die: the checkRollFinished closure useFrame runs
    calls,            \* the invocations of onRollFinished so far, in order
    now,              \* performance.now()
    lastAudioTime,    \* per die: lastAudioTimeRef.current
    sounds,           \* per die: the start times of the sounds played on it
    lastSound,        \* the sound played last: its die, time, buffer, volume
    diceHidden,       \* useDiceControlsStore: diceHidden
    diceBonus,        \* useDiceControlsStore: diceBonus
    diceAdvantage,    \* useDiceControlsStore: diceAdvantage
    anchorEl,         \* DiceExtras: the menu's anchor ("null" when closed)
    roll,             \* useDiceRollStore: roll ("null" when there is none)
    view,             \* DiceExtras: the values its last render closed over
    changedSinceRoll, \* history: bonus or advantage changed after roll was made
    lastOp            \* history: the last operation and what it did

vars == <<phase, origin, props, spawn, body, frameCb, calls, now, lastAudioTime,
          sounds, lastSound, diceHidden, diceBonus, diceAdvantage, anchorEl, roll, view,
          changedSinceRoll, lastOp>>

rollVars == <<phase, origin, props, spawn, body, frameCb, calls>>
audioVars == <<now, lastAudioTime, sounds, lastSound>>
extrasVars == <<diceHidden, diceBonus, diceAdvantage, anchorEl, roll, view,
                changedSinceRoll>>

\* ------------------------------------------------------------------ bounds

MaxCalls == 2
MaxSounds == 2
MaxTime == 500
MaxBonus == 2

\* --------------------------------------------------------------- constants

MIN_ROLL_FINISHED_SPEED == 5
AUDIO_COOLDOWN == 200
TRAY_CEILING == 150
FULL_VOLUME_SPEED == 500

\* ------------------------------------------------------------------ values

Null == "null"
Undefined == "undefined"
\* A nullable prop (dieValue, dieTransform): None is null, Some(x) holds x.
None == <<>>
Some(x) == <<x>>
Get(o) == o[1]

Dice == {"d1", "d2"}
\* The roll lifecycle is explored for one die; the audio throttle for both.
RollDice == {"d1"}

ZeroVector == <<0, 0, 0>>
Positions == {<<0, 100, 0>>, <<20, 150, 0>>, <<0, 300, 10>>}
LinVels == {ZeroVector, <<0, 0, 3>>, <<3, 4, 0>>}
AngVels == {ZeroVector, <<1, 2, 2>>}
\* Impact velocities for the audio throttle: speeds 3 and 7.
ImpactVels == {<<0, 0, 300>>, <<200, 300, 600>>}
\* Body orientations: identity, half turn about x, third turn about (1,1,1).
Quats == {<<0, 0, 0, 2>>, <<2, 0, 0, 0>>, <<1, 1, 1, 1>>}

Throws ==
    {[position |-> <<0, 300, 10>>, rotation |-> <<1, 1, 1, 1>>,
      linearVelocity |-> <<3, 4, 0>>, angularVelocity |-> <<1, 2, 2>>],
     [position |-> <<20, 150, 0>>, rotation |-> <<0, 0, 0, -2>>,
      linearVelocity |-> <<0, 0, 3>>, angularVelocity |-> ZeroVector]}

Transforms ==
    {[position |-> <<0, 100, 0>>, rotation |-> <<2, 0, 0, 0>>]}

DieValues == {6}
Callbacks == {"cbA", "cbB"}

PropsSet ==
    [dieThrow : Throws,
     dieValue : {None} \cup {Some(v) : v \in DieValues},
     dieTransform : {None} \cup {Some(t) : t \in Transforms},
     onRollFinished : {Undefined} \cup Callbacks]

NoProps == [dieThrow |-> CHOOSE t \in Throws : TRUE, dieValue |-> None,
            dieTransform |-> None, onRollFinished |-> Undefined]
NoSpawn == [position |-> ZeroVector, rotation |-> ZeroVector,
            linearVelocity |-> ZeroVector, angularVelocity |-> ZeroVector]
\* rigidBodyRef.current before the body exists (present is FALSE).
NoBody == [present |-> FALSE, pos |-> ZeroVector, rot |-> <<0, 0, 0, 2>>,
           linvel |-> ZeroVector, angvel |-> ZeroVector,
           enabledTranslations |-> TRUE, enabledRotations |-> TRUE]
NoClosure == [id |-> Null, dieValue |-> None, onRollFinished |-> Undefined]
\* The record of an operation: its name, its die, whether its guard let it
\* examine the state, whether it took effect, and its inputs.
Op(name, d, checked, fired, input) ==
    [op |-> name, die |-> d, checked |-> checked, fired |-> fired,
     input |-> input]
NoOp == Op("init", Null, FALSE, FALSE, <<>>)

\* ------------------------------------------------------------- arithmetic

Min(a, b) == IF a < b THEN a ELSE b

RECURSIVE SqrtBetween(_, _, _)
\* The largest r in lo..hi with r * r <= n.
SqrtBetween(n, lo, hi) ==
    IF lo >= hi THEN lo
    ELSE LET mid == (lo + hi + 1) \div 2
         IN IF mid * mid <= n THEN SqrtBetween(n, mid, hi)
            ELSE SqrtBetween(n, lo, mid - 1)

\* Math.sqrt on the squares the model feeds it (all perfect squares).
Sqrt(n) == SqrtBetween(n, 0, Min(n, 46340))

magnitude(v) == Sqrt(v[1] * v[1] + v[2] * v[2] + v[3] * v[3])

\* ------------------------------------------------- rotations (three.js)

\* The rotation matrix of a unit quaternion given in halves, row by row.
RotationMatrix(q) ==
    LET x == q[1]  y == q[2]  z == q[3]  w == q[4]
    IN << 1 - (y * y + z * z) \div 2, (x * y - w * z) \div 2, (x * z + w * y) \div 2,
          (x * y + w * z) \div 2, 1 - (x * x + z * z) \div 2, (y * z - w * x) \div 2,
          (x * z - w * y) \div 2, (y * z + w * x) \div 2, 1 - (x * x + y * y) \div 2 >>

\* Math.atan2 on unit axis pairs, in quarter turns.
Atan2(y, x) ==
    CASE y = 0 /\ x = 1 -> 0
      [] y = 1 /\ x = 0 -> 1
      [] y = 0 /\ x = -1 -> 2
      [] y = -1 /\ x = 0 -> -1

\* new THREE.Euler().setFromQuaternion(q): order XYZ, from the matrix.
EulerFromQuaternion(q) ==
    LET m == RotationMatrix(q)
    IN IF m[3] = 0
       THEN <<Atan2(-m[6], m[9]), 0, Atan2(-m[2], m[1])>>
       ELSE <<Atan2(m[8], m[5]), m[3], 0>>

Cos(a) == CASE a = 0 -> 1 [] a = 1 -> 0 [] a = 2 -> -1 [] a = -1 -> 0
Sin(a) == CASE a = 0 -> 0 [] a = 1 -> 1 [] a = 2 -> 0 [] a = -1 -> -1

\* The rotation matrix of an XYZ Euler triple (Matrix4.makeRotationFromEuler).
MatrixFromEuler(e) ==
    LET a == Cos(e[1])  b == Sin(e[1])
        c == Cos(e[2])  d == Sin(e[2])
        ee == Cos(e[3]) f == Sin(e[3])
    IN << c * ee, -(c * f), d,
          a * f + b * ee * d, a * ee - b * f * d, -(b * c),
          b * f - a * ee * d, b * ee + a * f * d, a * c >>

\* The orientation the physics body takes from the rotation prop.
QuaternionFromEuler(e) ==
    CHOOSE q \in Quats : RotationMatrix(q) = MatrixFromEuler(e)

\* getValueFromDiceGroup: the label of the face whose normal points up.
FaceNormals ==
    {<<1, <<0, 1, 0>>>>, <<6, <<0, -1, 0>>>>, <<2, <<1, 0, 0>>>>,
     <<5, <<-1, 0, 0>>>>, <<3, <<0, 0, 1>>>>, <<4, <<0, 0, -1>>>>}

getValueFromDiceGroup(q) ==
    LET m == RotationMatrix(q)
        f == CHOOSE g \in FaceNormals :
                 m[4] * g[2][1] + m[5] * g[2][2] + m[6] * g[2][3] = 1
    IN f[1]

\* ------------------------------------------------------------ PhysicsDice

\* The four useState initialisers.
InitialSpawn(p) ==
    [position |-> IF p.dieTransform # None THEN Get(p.dieTransform).position
                  ELSE p.dieThrow.position,
     rotation |-> EulerFromQuaternion(IF p.dieTransform # None
                                      THEN Get(p.dieTransform).rotation
                                      ELSE p.dieThrow.rotation),
     linearVelocity |-> IF p.dieTransform # None THEN ZeroVector
                        ELSE p.dieThrow.linearVelocity,
     angularVelocity |-> IF p.dieTransform # None THEN ZeroVector
                         ELSE p.dieThrow.angularVelocity]

SpawnRecomputed(current, p) == InitialSpawn(p)

\* useState on a re-render: the initialiser is not run again.
SpawnOnRender(current, p) == current

\* The body <RigidBody> creates from the spawn values.
NewBody(s) ==
    [present |-> TRUE, pos |-> s.position,
     rot |-> QuaternionFromEuler(s.rotation),
     linvel |-> s.linearVelocity, angvel |-> s.angularVelocity,
     enabledTranslations |-> TRUE, enabledRotations |-> TRUE]

lockDiceVelocitiesOnly(rb) ==
    [rb EXCEPT !.angvel = ZeroVector, !.linvel = ZeroVector]

lockDice(rb) ==
    [rb EXCEPT !.enabledRotations = FALSE, !.angvel = ZeroVector,
               !.enabledTranslations = FALSE, !.linvel = ZeroVector]

\* The closure useCallback builds in a render with props p of die d.
Closure(d, p) ==
    [id |-> d, dieValue |-> p.dieValue, onRollFinished |-> p.onRollFinished]

DepsChangedIgnoringValue(old, d, p) == old.id # d

\* useCallback's dependency list [die.id, dieValue, lockDice].
DepsChanged(old, d, p) == old.id # d \/ old.dieValue # p.dieValue

checkRollFinishedOf(old, d, p) ==
    IF DepsChanged(old, d, p) THEN Closure(d, p) ELSE old

ShouldCheckAlways(c, rb) == rb.present

\* if (rigidBody && dieValue === null && group)
ShouldCheck(c, rb) == rb.present /\ c.dieValue = None

RollFinishedInclusive(rb) ==
    /\ magnitude(rb.linvel) + magnitude(rb.angvel) <= MIN_ROLL_FINISHED_SPEED
    /\ rb.pos[2] <= TRAY_CEILING

\* speed < MIN_ROLL_FINISHED_SPEED && validPosition
RollFinished(rb) ==
    /\ magnitude(rb.linvel) + magnitude(rb.angvel) < MIN_ROLL_FINISHED_SPEED
    /\ rb.pos[2] < TRAY_CEILING

\* onRollFinished?.(die.id, value, transform)
Report(c, rb) ==
    IF c.onRollFinished = Undefined THEN calls
    ELSE Append(calls, [cb |-> c.onRollFinished, id |-> c.id,
                        value |-> getValueFromDiceGroup(rb.rot),
                        transform |-> [position |-> rb.pos, rotation |-> rb.rot]])

\* The lock effect, useEffect(..., [dieTransform]).
LockEffect(rb, old, p) ==
    IF p.dieTransform # old.dieTransform /\ p.dieTransform # None
    THEN lockDice(rb) ELSE rb

\* First render and commit of <PhysicsDice> for die d with props p.
Mount(d, p) ==
    /\ phase[d] = "unmounted"
    /\ phase' = [phase EXCEPT ![d] = "mounted"]
    /\ origin' = [origin EXCEPT ![d] =
                     IF p.dieTransform # None THEN "transform" ELSE "throw"]
    /\ props' = [props EXCEPT ![d] = p]
    /\ spawn' = [spawn EXCEPT ![d] = InitialSpawn(p)]
    /\ body' = [body EXCEPT ![d] = LockEffect(NewBody(InitialSpawn(p)), NoProps, p)]
    /\ frameCb' = [frameCb EXCEPT ![d] = checkRollFinishedOf(NoClosure, d, p)]
    /\ lastOp' = Op("Mount", d, FALSE, FALSE, <<>>)
    /\ UNCHANGED <<calls, audioVars, extrasVars>>

\* A re-render of <PhysicsDice> with new props p, and its commit.
Render(d, p) ==
    /\ phase[d] = "mounted"
    /\ p # props[d]
    /\ props' = [props EXCEPT ![d] = p]
    /\ spawn' = [spawn EXCEPT ![d] = SpawnOnRender(spawn[d], p)]
    /\ body' = [body EXCEPT ![d] = LockEffect(body[d], props[d], p)]
    /\ frameCb' = [frameCb EXCEPT ![d] = checkRollFinishedOf(frameCb[d], d, p)]
    /\ lastOp' = Op("Render", d, FALSE, FALSE, <<>>)
    /\ UNCHANGED <<phase, origin, calls, audioVars, extrasVars>>

\* One step of the physics world for die d: a free body moves, a locked
\* axis group keeps its pose and velocity.
PhysicsStep(d) ==
    /\ phase[d] = "mounted"
    /\ \E p \in Positions, q \in Quats, lv \in LinVels, av \in AngVels :
          /\ body' = [body EXCEPT ![d] =
                [present |-> TRUE,
                 pos |-> IF body[d].enabledTranslations THEN p ELSE body[d].pos,
                 linvel |-> IF body[d].enabledTranslations THEN lv
                            ELSE body[d].linvel,
                 rot |-> IF body[d].enabledRotations THEN q ELSE body[d].rot,
                 angvel |-> IF body[d].enabledRotations THEN av
                            ELSE body[d].angvel,
                 enabledTranslations |-> body[d].enabledTranslations,
                 enabledRotations |-> body[d].enabledRotations]]
    /\ lastOp' = Op("PhysicsStep", d, FALSE, FALSE, <<>>)
    /\ UNCHANGED <<phase, origin, props, spawn, frameCb, calls, audioVars,
                   extrasVars>>

\* One frame: useFrame runs the registered checkRollFinished closure.
checkRollFinished(d) ==
    /\ phase[d] = "mounted"
    /\ Len(calls) < MaxCalls
    /\ LET c == frameCb[d]
           rb == body[d]
           checked == ShouldCheck(c, rb)
           finished == checked /\ RollFinished(rb)
       IN /\ calls' = IF finished THEN Report(c, rb) ELSE calls
          /\ body' = [body EXCEPT ![d] = IF finished THEN lockDice(rb) ELSE rb]
          /\ lastOp' = Op("Tick", d, checked, finished, <<>>)
    /\ UNCHANGED <<phase, origin, props, spawn, frameCb, audioVars, extrasVars>>

\* The die is removed from the scene.
Unmount(d) ==
    /\ phase[d] = "mounted"
    /\ phase' = [phase EXCEPT ![d] = "removed"]
    /\ props' = [props EXCEPT ![d] = NoProps]
    /\ spawn' = [spawn EXCEPT ![d] = NoSpawn]
    /\ body' = [body EXCEPT ![d] = NoBody]
    /\ frameCb' = [frameCb EXCEPT ![d] = NoClosure]
    /\ lastOp' = Op("Unmount", d, FALSE, FALSE, <<>>)
    /\ UNCHANGED <<origin, calls, audioVars, extrasVars>>

\* ------------------------------------------------- collision audio throttle

Materials == {Undefined, "WOOD"}
NoBuffer == [weightClass |-> Null, material |-> Null]
NoSound == [die |-> Null, time |-> 0, buffer |-> NoBuffer, volume |-> 0]

\* getDieWeightClass(die)
getDieWeightClass(d) == IF d = "d1" THEN "MEDIUM" ELSE "HEAVY"

\* rigidBodyObject?.userData?.material || "LEATHER"
PhysicalMaterialOf(m) == IF m = Undefined THEN "LEATHER" ELSE m

\* getNextBuffer(weightClass, physicalMaterial): a buffer of that class and
\* material when one is loaded, nothing otherwise.
getNextBuffer(weightClass, material, loaded) ==
    IF loaded THEN [weightClass |-> weightClass, material |-> material]
    ELSE NoBuffer

CooldownIgnored(t, last) == t > last

\* the negation of: performance.now() - lastAudioTimeRef.current < AUDIO_COOLDOWN
CooldownOver(t, last) == ~(t - last < AUDIO_COOLDOWN)

VolumeUnclamped(speed) == speed

\* Math.min(speed / 5, 1), in 1/500
Volume(speed) == Min(speed, FULL_VOLUME_SPEED)

\* The time that passes while performance.now() runs.
AdvanceTime(dt) ==
    /\ now + dt <= MaxTime
    /\ now' = now + dt
    /\ lastOp' = Op("AdvanceTime", Null, FALSE, FALSE, <<>>)
    /\ UNCHANGED <<rollVars, lastAudioTime, sounds, lastSound, extrasVars>>

\* onCollisionEnter of die d: the other body's material as the payload gives
\* it, whether getNextBuffer has a buffer, and the time the handler takes
\* between its two readings of performance.now().
handleCollision(d, m, loaded, dt) ==
    /\ phase[d] = "mounted"
    /\ Len(sounds[d]) < MaxSounds
    /\ now + dt <= MaxTime
    /\ LET open == CooldownOver(now, lastAudioTime[d])
           physicalMaterial == PhysicalMaterialOf(m)
           speed == magnitude(body[d].linvel)
           buffer == getNextBuffer(getDieWeightClass(d), physicalMaterial, loaded)
           plays == open /\ body[d].present /\ buffer # NoBuffer
       IN /\ sounds' = IF plays THEN [sounds EXCEPT ![d] = Append(@, now)]
                       ELSE sounds
          /\ lastSound' = IF plays
                          THEN [die |-> d, time |-> now, buffer |-> buffer,
                                volume |-> Volume(speed)]
                          ELSE lastSound
          /\ lastAudioTime' = IF plays
                              THEN [lastAudioTime EXCEPT ![d] = now + dt]
                              ELSE lastAudioTime
          /\ now' = IF plays THEN now + dt ELSE now
          /\ lastOp' = Op("Collision", d, open, plays,
                        <<m, IF loaded THEN "loaded" ELSE "missing">>)
    /\ UNCHANGED <<rollVars, extrasVars>>

\* The physics world changes the linear velocity of a rolling die.
Impact(d) ==
    /\ phase[d] = "mounted"
    /\ \E lv \in ImpactVels :
          /\ lv # body[d].linvel
          /\ body' = [body EXCEPT ![d].linvel = lv]
    /\ lastOp' = Op("Impact", d, FALSE, FALSE, <<>>)
    /\ UNCHANGED <<phase, origin, props, spawn, frameCb, calls, audioVars,
                   extrasVars>>

\* ------------------------------------------------------------- DiceExtras

Advantages == {Null, "ADVANTAGE", "DISADVANTAGE"}
Rolls == {"roll1", "roll2"}

ClearNeededAlways(r) == TRUE

\* if (roll)
ClearNeeded(r) == r # Null

\* useDiceRollStore: clearRoll()
clearRoll == Null

\* clearRollIfNeeded(), with the roll its render closed over: the store's
\* roll afterwards.
clearRollIfNeeded(r) == IF ClearNeeded(r) THEN clearRoll ELSE roll

\* The re-render the stores' subscriptions trigger after a handler.
Rerender == view' = [bonus |-> diceBonus', roll |-> roll']

\* <IconButton onClick={toggleDiceHidden}>
toggleDiceHidden ==
    /\ diceHidden' = ~diceHidden
    /\ lastOp' = Op("toggleDiceHidden", Null, FALSE, FALSE, <<>>)
    /\ UNCHANGED <<diceBonus, diceAdvantage, anchorEl, roll, changedSinceRoll>>
    /\ Rerender
    /\ UNCHANGED <<rollVars, audioVars>>

handleClick ==
    /\ anchorEl = Null
    /\ anchorEl' = "more-button"
    /\ lastOp' = Op("handleClick", Null, FALSE, FALSE, <<>>)
    /\ UNCHANGED <<diceHidden, diceBonus, diceAdvantage, roll, changedSinceRoll>>
    /\ Rerender
    /\ UNCHANGED <<rollVars, audioVars>>

handleClose ==
    /\ anchorEl # Null
    /\ anchorEl' = Null
    /\ lastOp' = Op("handleClose", Null, FALSE, FALSE, <<>>)
    /\ UNCHANGED <<diceHidden, diceBonus, diceAdvantage, roll, changedSinceRoll>>
    /\ Rerender
    /\ UNCHANGED <<rollVars, audioVars>>

\* A handler of the open menu that sets the bonus to b, then clears the roll.
SetBonusAndClear(name, b) ==
    /\ anchorEl # Null
    /\ b \in -MaxBonus..MaxBonus
    /\ diceBonus' = b
    /\ roll' = clearRollIfNeeded(view.roll)
    /\ changedSinceRoll' = TRUE
    /\ lastOp' = Op(name, Null, TRUE, ClearNeeded(view.roll), <<>>)
    /\ UNCHANGED <<diceHidden, diceAdvantage, anchorEl>>
    /\ Rerender
    /\ UNCHANGED <<rollVars, audioVars>>

\* DieBonus onChange
BonusChange(b) == SetBonusAndClear("bonusChange", b)

\* DieBonus onIncrease
BonusIncrease == SetBonusAndClear("bonusIncrease", view.bonus + 1)

\* DieBonus onDecrease
BonusDecrease == SetBonusAndClear("bonusDecrease", view.bonus - 1)

\* DieAdvantage onChange
AdvantageChange(a) ==
    /\ anchorEl # Null
    /\ diceAdvantage' = a
    /\ roll' = clearRollIfNeeded(view.roll)
    /\ changedSinceRoll' = TRUE
    /\ lastOp' = Op("advantageChange", Null, TRUE, ClearNeeded(view.roll), <<>>)
    /\ UNCHANGED <<diceHidden, diceBonus, anchorEl>>
    /\ Rerender
    /\ UNCHANGED <<rollVars, audioVars>>

\* useDiceRollStore: a roll r is started elsewhere in the application.
StartRoll(r) ==
    /\ roll' = r
    /\ changedSinceRoll' = FALSE
    /\ lastOp' = Op("startRoll", Null, FALSE, FALSE, <<>>)
    /\ UNCHANGED <<diceHidden, diceBonus, diceAdvantage, anchorEl>>
    /\ Rerender
    /\ UNCHANGED <<rollVars, audioVars>>

\* ------------------------------------------------------- specification

ExtrasIdle ==
    /\ diceHidden = FALSE
    /\ diceBonus = 0
    /\ diceAdvantage = Null
    /\ anchorEl = Null
    /\ roll = Null
    /\ view = [bonus |-> 0, roll |-> Null]
    /\ changedSinceRoll = FALSE

AudioIdle ==
    /\ now = 0
    /\ lastAudioTime = [d \in Dice |-> 0]
    /\ sounds = [d \in Dice |-> <<>>]
    /\ lastSound = NoSound

Init ==
    /\ phase = [d \in Dice |-> "unmounted"]
    /\ origin = [d \in Dice |-> "none"]
    /\ props = [d \in Dice |-> NoProps]
    /\ spawn = [d \in Dice |-> NoSpawn]
    /\ body = [d \in Dice |-> NoBody]
    /\ frameCb = [d \in Dice |-> NoClosure]
    /\ calls = <<>>
    /\ AudioIdle
    /\ ExtrasIdle
    /\ lastOp = NoOp

Next ==
    \E d \in RollDice :
        \/ \E p \in PropsSet : Mount(d, p)
        \/ \E p \in PropsSet : Render(d, p)
        \/ PhysicsStep(d)
        \/ checkRollFinished(d)
        \/ Unmount(d)

Spec == Init /\ [][Next]_vars

\* Two dice in mid-roll, for the audio throttle.
RollingProps == [dieThrow |-> CHOOSE t \in Throws : t.position[2] > TRAY_CEILING,
                 dieValue |-> None, dieTransform |-> None,
                 onRollFinished |-> "cbA"]

InitAudio ==
    /\ phase = [d \in Dice |-> "mounted"]
    /\ origin = [d \in Dice |-> "throw"]
    /\ props = [d \in Dice |-> RollingProps]
    /\ spawn = [d \in Dice |-> InitialSpawn(RollingProps)]
    /\ body = [d \in Dice |->
                 [NewBody(InitialSpawn(RollingProps)) EXCEPT
                     !.linvel = CHOOSE lv \in ImpactVels : TRUE]]
    /\ frameCb = [d \in Dice |-> Closure(d, RollingProps)]
    /\ calls = <<>>
    /\ AudioIdle
    /\ ExtrasIdle
    /\ lastOp = NoOp

NextAudio ==
    \/ \E dt \in {50, 150} : AdvanceTime(dt)
    \/ \E d \in Dice, m \in Materials, loaded \in BOOLEAN, dt \in {0, 50} :
          handleCollision(d, m, loaded, dt)
    \/ \E d \in Dice : Impact(d)

SpecAudio == InitAudio /\ [][NextAudio]_vars

NextExtras ==
    \/ toggleDiceHidden
    \/ handleClick
    \/ handleClose
    \/ \E b \in -MaxBonus..MaxBonus : BonusChange(b)
    \/ BonusIncrease
    \/ BonusDecrease
    \/ \E a \in Advantages : AdvantageChange(a)
    \/ \E r \in Rolls : StartRoll(r)

SpecExtras == Init /\ [][NextExtras]_vars

\* ----------------------------------------------------------------- claims

Last(q) == q[Len(q)]
Speed(rb) == magnitude(rb.linvel) + magnitude(rb.angvel)
Frozen(rb) ==
    /\ rb.linvel = ZeroVector
    /\ rb.angvel = ZeroVector
    /\ ~rb.enabledTranslations
    /\ ~rb.enabledRotations
TickOf(d) == lastOp'.op = "Tick" /\ lastOp'.die = d

\* C1 (as stated): onRollFinished is invoked at most once for a die between
\* its throw and its removal.
C1_AtMostOnce ==
    \A d \in Dice : Cardinality({i \in DOMAIN calls : calls[i].id = d}) <= 1

\* C1 (amended): onRollFinished is invoked only by frame ticks, at most once
\* per tick and never on a tick whose rendered dieValue is non-null; it may
\* be invoked on several ticks while dieValue stays null, and every
\* invocation for a die reports the same value and the same transform.
C1_SameResultUntilValueRendered ==
    [][/\ calls' # calls =>
            /\ lastOp'.op = "Tick"
            /\ Len(calls') = Len(calls) + 1
            /\ SubSeq(calls', 1, Len(calls)) = calls
            /\ props[lastOp'.die].dieValue = None
       /\ \A i, j \in DOMAIN calls' :
            calls'[i].id = calls'[j].id =>
                /\ calls'[i].value = calls'[j].value
                /\ calls'[i].transform = calls'[j].transform]_vars

\* Two invocations for the same die, the second on a later tick.
C1_Witness ==
    /\ Len(calls) >= 2
    /\ calls[1].id = calls[2].id
    /\ lastOp.op = "Tick"
    /\ lastOp.fired

\* C2: on a tick with the body present and dieValue null, the roll is
\* finished (the body is frozen, and the callback, if there is one, invoked
\* once) exactly when speed < 0.05 and y < 1.5; otherwise no callback is
\* invoked and the body is left as it is.
C2_FinishedIffSlowAndLow ==
    [][\A d \in Dice :
         TickOf(d) /\ body[d].present /\ props[d].dieValue = None =>
            IF Speed(body[d]) < MIN_ROLL_FINISHED_SPEED
               /\ body[d].pos[2] < TRAY_CEILING
            THEN /\ lastOp'.fired
                 /\ Frozen(body'[d])
                 /\ Len(calls') = Len(calls)
                        + (IF frameCb[d].onRollFinished = Undefined THEN 0 ELSE 1)
            ELSE /\ ~lastOp'.fired
                 /\ calls' = calls
                 /\ body' = body]_vars

\* A tick that examined a free body at exactly the threshold speed, below
\* the ceiling, and did not finish the roll.
C2_Witness ==
    \E d \in Dice :
        /\ lastOp = Op("Tick", d, TRUE, FALSE, <<>>)
        /\ Speed(body[d]) = MIN_ROLL_FINISHED_SPEED
        /\ body[d].pos[2] < TRAY_CEILING
        /\ body[d].enabledTranslations

\* C3: the finishing tick reports the position and rotation the body has
\* when the tick starts, and freezes it (zero velocities, translation and
\* rotation disabled); from then on the body keeps the reported pose.
C3_ReportedPoseIsKept ==
    [][/\ \A d \in Dice :
            TickOf(d) /\ calls' # calls =>
                /\ Last(calls').transform =
                       [position |-> body[d].pos, rotation |-> body[d].rot]
                /\ Last(calls').id = d
       /\ \A i \in DOMAIN calls' :
            phase'[calls'[i].id] = "mounted" =>
                /\ Frozen(body'[calls'[i].id])
                /\ body'[calls'[i].id].pos = calls'[i].transform.position
                /\ body'[calls'[i].id].rot = calls'[i].transform.rotation]_vars

\* A physics step taken after a die thrown in motion has reported its result.
C3_Witness ==
    /\ calls # <<>>
    /\ origin[calls[1].id] = "throw"
    /\ lastOp = Op("PhysicsStep", calls[1].id, FALSE, FALSE, <<>>)

\* C4: a tick with dieValue non-null skips the settle check: it does not
\* examine the body, leaves it unchanged, invokes no callback, locks nothing.
C4_SkippedWhenValueSet ==
    [][\A d \in Dice :
         TickOf(d) /\ props[d].dieValue # None =>
            /\ ~lastOp'.checked
            /\ ~lastOp'.fired
            /\ body' = body
            /\ calls' = calls]_vars

\* A skipped tick on a free body that is at rest below the ceiling.
C4_Witness ==
    \E d \in Dice :
        /\ lastOp = Op("Tick", d, FALSE, FALSE, <<>>)
        /\ props[d].dieValue # None
        /\ body[d].enabledTranslations
        /\ body[d].enabledRotations
        /\ Speed(body[d]) < MIN_ROLL_FINISHED_SPEED
        /\ body[d].pos[2] < TRAY_CEILING

\* C5 (as stated): a die mounted with a stored transform spawns at the stored
\* pose with zero velocities, is locked, and no tick ever invokes
\* onRollFinished for it.
C5_RestoredNeverReports ==
    \A d \in Dice :
        origin[d] = "transform" =>
            /\ phase[d] = "mounted" => Frozen(body[d])
            /\ \A i \in DOMAIN calls : calls[i].id # d

\* C6: a collision less than AUDIO_COOLDOWN after the last sound of its die
\* plays nothing, any two sounds of one die are at least AUDIO_COOLDOWN
\* apart, and a collision of one die leaves the other dice's sounds and
\* last-sound times as they are.
C6_CooldownPerDie ==
    [][/\ \A d \in Dice : \A i, j \in DOMAIN sounds'[d] :
            i < j => sounds'[d][j] - sounds'[d][i] >= AUDIO_COOLDOWN
       /\ \A d \in Dice :
            lastOp'.op = "Collision" /\ lastOp'.die = d =>
                /\ sounds[d] # <<>> /\ now - Last(sounds[d]) < AUDIO_COOLDOWN
                      => sounds'[d] = sounds[d] /\ lastSound' = lastSound
                /\ \A e \in Dice \ {d} :
                      /\ sounds'[e] = sounds[e]
                      /\ lastAudioTime'[e] = lastAudioTime[e]]_vars

\* Two sounds of d1 exactly the cooldown apart, and a sound of d2 between them.
C6_Witness ==
    /\ Len(sounds["d1"]) = 2
    /\ sounds["d1"][2] - sounds["d1"][1] = AUDIO_COOLDOWN
    /\ sounds["d2"] # <<>>
    /\ sounds["d2"][1] > sounds["d1"][1]
    /\ sounds["d2"][1] < sounds["d1"][2]

\* C7 (as stated): every collision the cooldown does not suppress plays
\* exactly one sound, of the die's weight class and the surface's material,
\* at volume min(speed / 5, 1), and sets the last-sound time to the time.
C7_AlwaysPlays ==
    [][\A d \in Dice :
         /\ lastOp'.op = "Collision"
         /\ lastOp'.die = d
         /\ now - lastAudioTime[d] >= AUDIO_COOLDOWN
         => /\ sounds'[d] = Append(sounds[d], now)
            /\ lastSound'.die = d
            /\ lastSound'.volume = Min(magnitude(body[d].linvel), FULL_VOLUME_SPEED)
            /\ lastAudioTime'[d] = now']_vars

\* C7 (amended): a collision the cooldown does not suppress plays exactly one
\* sound when getNextBuffer returns a buffer: of the die's weight class and
\* the surface's material (LEATHER when the payload names none), at volume
\* min(speed / 5, 1), and the last-sound time becomes the time; when
\* getNextBuffer returns nothing, no sound is played and the last-sound time
\* stays as it was.
C7_PlaysWhenBufferLoaded ==
    [][\A d \in Dice :
         /\ lastOp'.op = "Collision"
         /\ lastOp'.die = d
         /\ now - lastAudioTime[d] >= AUDIO_COOLDOWN
         => IF lastOp'.input[2] = "loaded"
            THEN /\ sounds'[d] = Append(sounds[d], now)
                 /\ lastSound' =
                      [die |-> d, time |-> now,
                       buffer |-> [weightClass |-> getDieWeightClass(d),
                                   material |-> IF lastOp'.input[1] = Undefined
                                                THEN "LEATHER"
                                                ELSE lastOp'.input[1]],
                       volume |-> IF magnitude(body[d].linvel) < FULL_VOLUME_SPEED
                                  THEN magnitude(body[d].linvel)
                                  ELSE FULL_VOLUME_SPEED]
                 /\ lastAudioTime'[d] = now'
            ELSE /\ sounds' = sounds
                 /\ lastSound' = lastSound
                 /\ lastAudioTime' = lastAudioTime]_vars

\* A sound played at full volume by a die faster than 5, on a surface whose
\* material the payload does not name.
C7_Witness ==
    \E d \in Dice :
        /\ lastOp.op = "Collision"
        /\ lastOp.die = d
        /\ lastOp.fired
        /\ lastOp.input[1] = Undefined
        /\ lastSound.volume = FULL_VOLUME_SPEED
        /\ magnitude(body[d].linvel) > FULL_VOLUME_SPEED

\* C8: the four spawn values are fixed at first mount: from dieThrow when
\* dieTransform is null, otherwise the pose of dieTransform with zero
\* velocities; the body starts from them; and no re-render changes them.
C8_SpawnFixedAtMount ==
    [][\A d \in Dice :
         /\ lastOp'.op = "Mount" /\ lastOp'.die = d =>
              LET p == props'[d]
                  restored == p.dieTransform # None
                  pose == IF restored THEN Get(p.dieTransform) ELSE p.dieThrow
              IN /\ spawn'[d].position = pose.position
                 /\ MatrixFromEuler(spawn'[d].rotation) = RotationMatrix(pose.rotation)
                 /\ spawn'[d].linearVelocity =
                        (IF restored THEN ZeroVector ELSE p.dieThrow.linearVelocity)
                 /\ spawn'[d].angularVelocity =
                        (IF restored THEN ZeroVector ELSE p.dieThrow.angularVelocity)
                 /\ body'[d].pos = spawn'[d].position
                 /\ RotationMatrix(body'[d].rot) = RotationMatrix(pose.rotation)
                 /\ body'[d].linvel = spawn'[d].linearVelocity
                 /\ body'[d].angvel = spawn'[d].angularVelocity
         /\ phase[d] = "mounted" /\ phase'[d] = "mounted" => spawn'[d] = spawn[d]]_vars

\* A thrown die re-rendered with another throw and with a stored transform.
C8_Witness ==
    \E d \in Dice :
        /\ lastOp = Op("Render", d, FALSE, FALSE, <<>>)
        /\ origin[d] = "throw"
        /\ props[d].dieTransform # None
        /\ props[d].dieThrow.position # spawn[d].position
        /\ spawn[d].linearVelocity # ZeroVector

\* C9: setting, increasing or decreasing the bonus and setting the advantage
\* call clearRoll exactly when there is a roll, and leave none; toggling the
\* visibility and opening or closing the menu leave the roll as it is; so a
\* roll that is present was made after the last bonus or advantage change.
C9_RollClearedOnChange ==
    [][/\ lastOp'.op \in {"bonusChange", "bonusIncrease", "bonusDecrease",
                          "advantageChange"} =>
            /\ lastOp'.fired <=> roll # Null
            /\ roll' = Null
       /\ lastOp'.op = "bonusIncrease" => diceBonus' = diceBonus + 1
       /\ lastOp'.op = "bonusDecrease" => diceBonus' = diceBonus - 1
       /\ lastOp'.op \in {"toggleDiceHidden", "handleClick", "handleClose"} =>
            /\ ~lastOp'.fired
            /\ roll' = roll
            /\ diceBonus' = diceBonus
            /\ diceAdvantage' = diceAdvantage
       /\ roll' # Null => ~changedSinceRoll']_vars

\* A roll made after a bonus change and kept while the dice are hidden.
C9_Witness ==
    /\ roll # Null
    /\ diceBonus # 0
    /\ diceHidden
    /\ lastOp.op = "toggleDiceHidden"

\* C10 (as stated): the callback a finishing tick invokes is the
\* onRollFinished of the most recent render.
C10_NewestCallback ==
    [][\A d \in Dice :
         TickOf(d) /\ lastOp'.fired =>
            IF props[d].onRollFinished = Undefined THEN calls' = calls
            ELSE /\ Len(calls') = Len(calls) + 1
                 /\ Last(calls').cb = props[d].onRollFinished]_vars

====
